---- MODULE Spec2Model ----
(***************************************************************************)
(* Lab 5 buzzer skeleton (template_files/lab5): main() of lab5.c and the   *)
(* hardware interface of hw_interface.c, over the TIMG0 tick timer, the    *)
(* TIMA1 PWM timer and the four push-buttons on GPIOA.                     *)
(*                                                                         *)
(* Registers are records.  A bit-field register (CTRCTL, IMASK, RIS,       *)
(* DIN31_0) is the set of its bits that are 1, so that  |=  is set union,  *)
(* &= ~  is set difference and  &  is intersection.                        *)
(***************************************************************************)
EXTENDS Integers, Sequences, FiniteSets

VARIABLES
    pc,          \* position of main() (lab5.c), or "api" for direct calls
    call,        \* the hw_interface function called last (direct calls only)
    DIN,         \* GPIOA->DIN31_0, bits of the four switches
    input,       \* main's local  uint32_t input
    GPIOA,       \* GPIOA power state
    IOMUX,       \* IOMUX->SECCFG.PINCM[...]
    TIMG0,       \* tick timer registers
    NVIC,        \* interrupts enabled in the NVIC
    TIMA1,       \* PWM timer registers
    wr,          \* timer registers the latest step stored to
    history,     \* the last DebounceN levels of SW1 that main sampled
    everPressed, \* some loop iteration has sampled SW1 low
    held,        \* consecutive loop iterations that acted on SW1 low
    pushes       \* stores to TIMA1 registers made in those iterations

vars == <<pc, call, DIN, input, GPIOA, IOMUX, TIMG0, NVIC, TIMA1, wr,
          history, everPressed, held, pushes>>

----------------------------------------------------------------------------
(* Bounds of the model *)

\* length of the window of SW1 samples kept in history (the debounce length
\* N >= 2 that the button-debouncer design speaks of)
DebounceN == 2

\* held and pushes saturate here
MaxHeld == 5

----------------------------------------------------------------------------
(* hw_interface.h *)

SW1 == 23
SW2 == 24
SW3 == 25
SW4 == 26

Switches == {SW1, SW2, SW3, SW4}

\* a & b on registers held as sets of bits
BitAnd(a, b) == a \cap b

Min(a, b) == IF a < b THEN a ELSE b

\* uint16_t arguments used for the direct calls
Periods == {0, 1, 2, 7, 3999, 4000, 65535}

----------------------------------------------------------------------------
(* Reset state of the peripherals *)

TIMG0_Reset ==
    [PWREN |-> FALSE, CLKSEL |-> "none", CTRCTL |-> {}, IMASK |-> {},
     RIS |-> {}, CCLKCTL |-> FALSE, LOAD |-> 0]

TIMA1_Reset ==
    [PWREN |-> FALSE, CLKSEL |-> "none", CLKDIV |-> 1, CCACT_01 |-> {},
     CTRCTL |-> {}, CCPD |-> {}, CCLKCTL |-> FALSE, LOAD |-> 0, CC_01 |-> 0]

IOMUX_Reset ==
    [p \in {"PINCM37", "PINCM53", "PINCM54", "PINCM55", "PINCM59"} |-> "unconnected"]

NoCall == [fn |-> "none", arg |-> 0]

----------------------------------------------------------------------------
(* hw_interface.c: the functions, as functions of the register block *)

\* void SetTimerA1Period(uint16_t period): the body is a bare return
SetTimerA1Period(t, period) == t

\* void EnableTimerA1PWM(void): the body is a bare return
EnableTimerA1PWM(t) == t

\* void DisableTimerA1PWM(void): the body is a bare return
DisableTimerA1PWM(t) == t

\* TIMG0->COUNTERREGS.LOAD = delay
SetTimerG0Delay(g, delay) == [g EXCEPT !.LOAD = delay]

\* variant: CTRCTL = EN_ENABLED, a plain store in place of |=
EnableTimerG0_Assign(g) == [g EXCEPT !.CTRCTL = {"EN"}]

\* TIMG0->COUNTERREGS.CTRCTL |= GPTIMER_CTRCTL_EN_ENABLED
EnableTimerG0(g) == [g EXCEPT !.CTRCTL = @ \cup {"EN"}]

\* variant: the store of REPEAT_1 to CTRCTL left out (one-shot countdown)
InitializeTimerG0_OneShot(g) ==
    [TIMG0_Reset EXCEPT !.PWREN = TRUE,
                        !.CLKSEL = "LFCLK",
                        !.IMASK = @ \cup {"Z"},
                        !.CCLKCTL = TRUE]

\* reset and power up, LFCLK, CTRCTL = REPEAT_1, IMASK |= Z, clock enable;
\* LOAD is not written and the timer is not enabled
InitializeTimerG0(g) ==
    [TIMG0_Reset EXCEPT !.PWREN = TRUE,
                        !.CLKSEL = "LFCLK",
                        !.CTRCTL = {"REPEAT_1"},
                        !.IMASK = @ \cup {"Z"},
                        !.CCLKCTL = TRUE]

\* variant: CC_01[0] = LOAD / 2
InitializeTimerA1_PWM_HalfLoad(t) ==
    LET a == [TIMA1_Reset EXCEPT !.PWREN = TRUE,
                                 !.CLKSEL = "BUSCLK",
                                 !.CLKDIV = 4,
                                 !.CCACT_01 = {"ZACT_CCP_HIGH", "CUACT_CCP_LOW"},
                                 !.CTRCTL = {"REPEAT_1", "CM_UP", "CVAE_ZEROVAL"},
                                 !.CCPD = {"C0CCP0_OUTPUT", "C0CCP1_OUTPUT"},
                                 !.CCLKCTL = TRUE,
                                 !.LOAD = 3999]
        b == [a EXCEPT !.CC_01 = a.LOAD \div 2]
    IN  [b EXCEPT !.CTRCTL = @ \cup {"EN"}]

\* reset and power up, BUSCLK / 4, PWM actions, CTRCTL = REPEAT_1 | CM_UP |
\* CVAE_ZEROVAL | EN_DISABLED, LOAD = 3999, CC_01[0] = (LOAD + 1) / 2,
\* CTRCTL |= EN_ENABLED
InitializeTimerA1_PWM(t) ==
    LET a == [TIMA1_Reset EXCEPT !.PWREN = TRUE,
                                 !.CLKSEL = "BUSCLK",
                                 !.CLKDIV = 4,
                                 !.CCACT_01 = {"ZACT_CCP_HIGH", "CUACT_CCP_LOW"},
                                 !.CTRCTL = {"REPEAT_1", "CM_UP", "CVAE_ZEROVAL"},
                                 !.CCPD = {"C0CCP0_OUTPUT", "C0CCP1_OUTPUT"},
                                 !.CCLKCTL = TRUE,
                                 !.LOAD = 3999]
        b == [a EXCEPT !.CC_01 = (a.LOAD + 1) \div 2]
    IN  [b EXCEPT !.CTRCTL = @ \cup {"EN"}]

\* registers InitializeTimerA1_PWM stores to
InitializeTimerA1_PWM_Writes ==
    {"TIMA1.PWREN", "TIMA1.CLKSEL", "TIMA1.CLKDIV", "TIMA1.CCACT_01",
     "TIMA1.CTRCTL", "TIMA1.CCPD", "TIMA1.CCLKCTL", "TIMA1.LOAD", "TIMA1.CC_01"}

\* registers InitializeTimerG0 stores to
InitializeTimerG0_Writes ==
    {"TIMG0.PWREN", "TIMG0.CLKSEL", "TIMG0.CTRCTL", "TIMG0.IMASK", "TIMG0.CCLKCTL"}

\* PA15 to TIMA1 CCP0, the four switch pins to pulled-up inputs
InitializeGPIO_IOMUX ==
    [p \in DOMAIN IOMUX_Reset |-> IF p = "PINCM37" THEN "TIMA1_CCP0" ELSE "input_pullup"]

----------------------------------------------------------------------------
(* lab5.c: the statements of main *)

\* variant: the statement left out
DisableBuzzer_Skipped(t) == t

\* TIMA1->COUNTERREGS.CTRCTL &= ~(GPTIMER_CTRCTL_EN_ENABLED), before the loop
DisableBuzzer(t) == [t EXCEPT !.CTRCTL = @ \ {"EN"}]

\* GPIOA->DIN31_0 & (SW1 + SW2 + SW3 + SW4)
LoopSample(din) == BitAnd(din, {SW1} \cup {SW2} \cup {SW3} \cup {SW4})

\* variant: the test reads SW2
LoopUpdate_TestsSW2(t, in) ==
    IF BitAnd(in, {SW2}) = {}
    THEN [t EXCEPT !.CTRCTL = @ \cup {"EN"}]
    ELSE [t EXCEPT !.CTRCTL = @ \ {"EN"}]

\* variant: no else branch
LoopUpdate_NoElse(t, in) ==
    IF BitAnd(in, {SW1}) = {}
    THEN [t EXCEPT !.CTRCTL = @ \cup {"EN"}]
    ELSE t

\* variant: plain stores to CTRCTL in place of |= and &= ~
LoopUpdate_Assign(t, in) ==
    IF BitAnd(in, {SW1}) = {}
    THEN [t EXCEPT !.CTRCTL = {"EN"}]
    ELSE [t EXCEPT !.CTRCTL = {}]

\* if ((input & SW1) == 0) CTRCTL |= EN; else CTRCTL &= ~EN
LoopUpdate(t, in) ==
    IF BitAnd(in, {SW1}) = {}
    THEN [t EXCEPT !.CTRCTL = @ \cup {"EN"}]
    ELSE [t EXCEPT !.CTRCTL = @ \ {"EN"}]

\* variant: CTRCTL is stored to only when the enable bit has to change
LoopWrites_OnChange(t, in) ==
    IF (BitAnd(in, {SW1}) = {}) = ("EN" \in t.CTRCTL) THEN {} ELSE {"TIMA1.CTRCTL"}

\* both branches of the if store to TIMA1 CTRCTL
LoopWrites(t, in) == {"TIMA1.CTRCTL"}

TIMA1_Regs == InitializeTimerA1_PWM_Writes

TIMG0_Regs == InitializeTimerG0_Writes \cup {"TIMG0.LOAD"}

----------------------------------------------------------------------------
(* The interrupt path *)

\* the zero event is raised, unmasked and enabled in the NVIC
IrqPending ==
    /\ "Z" \in TIMG0.RIS
    /\ "Z" \in TIMG0.IMASK
    /\ "TIMG0_INT" \in NVIC

\* main executes only while no interrupt is waiting to be taken
MainRuns == pc # "api" /\ ~IrqPending

\* the level of SW1 in a sample: 0 is pressed (active low)
Level(in) == IF SW1 \in in THEN 1 ELSE 0

\* h followed by level x, cut to the last DebounceN entries
Shift(h, x) ==
    LET g == Append(h, x)
    IN  IF Len(g) > DebounceN THEN SubSeq(g, Len(g) - DebounceN + 1, Len(g)) ELSE g

----------------------------------------------------------------------------
(* main() of lab5.c, statement by statement *)

Main_InitializeGPIO ==
    /\ MainRuns /\ pc = "start"
    /\ GPIOA' = [GPIOA EXCEPT !.PWREN = TRUE]
    /\ IOMUX' = InitializeGPIO_IOMUX
    /\ wr' = {}
    /\ pc' = "initG0"
    /\ UNCHANGED <<call, DIN, input, TIMG0, NVIC, TIMA1, history, everPressed, held, pushes>>

Main_InitializeTimerG0 ==
    /\ MainRuns /\ pc = "initG0"
    /\ TIMG0' = InitializeTimerG0(TIMG0)
    /\ wr' = InitializeTimerG0_Writes
    /\ pc' = "initA1"
    /\ UNCHANGED <<call, DIN, input, GPIOA, IOMUX, NVIC, TIMA1, history, everPressed, held, pushes>>

Main_InitializeTimerA1_PWM ==
    /\ MainRuns /\ pc = "initA1"
    /\ TIMA1' = InitializeTimerA1_PWM(TIMA1)
    /\ wr' = InitializeTimerA1_PWM_Writes
    /\ pc' = "delay"
    /\ UNCHANGED <<call, DIN, input, GPIOA, IOMUX, TIMG0, NVIC, history, everPressed, held, pushes>>

\* delay_cycles(1600000): the buzzer runs for 0.1 s
Main_delay_cycles ==
    /\ MainRuns /\ pc = "delay"
    /\ wr' = {}
    /\ pc' = "disable"
    /\ UNCHANGED <<call, DIN, input, GPIOA, IOMUX, TIMG0, NVIC, TIMA1, history, everPressed, held, pushes>>

Main_DisableBuzzer ==
    /\ MainRuns /\ pc = "disable"
    /\ TIMA1' = DisableBuzzer(TIMA1)
    /\ wr' = {"TIMA1.CTRCTL"}
    /\ pc' = "setDelay"
    /\ UNCHANGED <<call, DIN, input, GPIOA, IOMUX, TIMG0, NVIC, history, everPressed, held, pushes>>

Main_SetTimerG0Delay ==
    /\ MainRuns /\ pc = "setDelay"
    /\ TIMG0' = SetTimerG0Delay(TIMG0, 20)
    /\ wr' = {"TIMG0.LOAD"}
    /\ pc' = "enableG0"
    /\ UNCHANGED <<call, DIN, input, GPIOA, IOMUX, NVIC, TIMA1, history, everPressed, held, pushes>>

\* EnableTimerG0(): the enable bit, then NVIC_EnableIRQ(TIMG0_INT_IRQn)
Main_EnableTimerG0 ==
    /\ MainRuns /\ pc = "enableG0"
    /\ TIMG0' = EnableTimerG0(TIMG0)
    /\ NVIC' = NVIC \cup {"TIMG0_INT"}
    /\ wr' = {"TIMG0.CTRCTL"}
    /\ pc' = "sample"
    /\ UNCHANGED <<call, DIN, input, GPIOA, IOMUX, TIMA1, history, everPressed, held, pushes>>

\* uint32_t input = GPIOA->DIN31_0 & (SW1 + SW2 + SW3 + SW4)
Loop_Sample ==
    /\ MainRuns /\ pc = "sample"
    /\ input' = LoopSample(DIN)
    /\ history' = Shift(history, Level(input'))
    /\ everPressed' = (everPressed \/ Level(input') = 0)
    /\ wr' = {}
    /\ pc' = "update"
    /\ UNCHANGED <<call, DIN, GPIOA, IOMUX, TIMG0, NVIC, TIMA1, held, pushes>>

\* the if / else on input & SW1
Loop_Update ==
    /\ MainRuns /\ pc = "update"
    /\ TIMA1' = LoopUpdate(TIMA1, input)
    /\ wr' = LoopWrites(TIMA1, input)
    /\ IF Level(input) = 0
       THEN /\ held' = Min(held + 1, MaxHeld)
            /\ pushes' = Min(pushes + Cardinality(wr' \cap TIMA1_Regs), MaxHeld)
       ELSE /\ held' = 0
            /\ pushes' = 0
    /\ pc' = "wfi"
    /\ UNCHANGED <<call, DIN, input, GPIOA, IOMUX, TIMG0, NVIC, history, everPressed>>

\* __WFI(): main has no step at pc = "wfi"; TIMG0_IRQHandler resumes it

----------------------------------------------------------------------------
(* Hardware and environment *)

\* TIMG0 counts down to zero: the zero event is raised; with REPEAT_1 the
\* counter reloads and keeps running, otherwise the timer stops
TimerExpire ==
    /\ pc # "api"
    /\ TIMG0.PWREN /\ TIMG0.CCLKCTL /\ "EN" \in TIMG0.CTRCTL
    /\ TIMG0' = [TIMG0 EXCEPT !.RIS = @ \cup {"Z"},
                              !.CTRCTL = IF "REPEAT_1" \in @ THEN @ ELSE @ \ {"EN"}]
    /\ wr' = {}
    /\ UNCHANGED <<pc, call, DIN, input, GPIOA, IOMUX, NVIC, TIMA1, history, everPressed, held, pushes>>

\* the handler reads IIDX, which clears the zero event; taking the interrupt
\* ends a WFI
TIMG0_IRQHandler ==
    /\ pc # "api"
    /\ IrqPending
    /\ TIMG0' = [TIMG0 EXCEPT !.RIS = @ \ {"Z"}]
    /\ pc' = IF pc = "wfi" THEN "sample" ELSE pc
    /\ wr' = {}
    /\ UNCHANGED <<call, DIN, input, GPIOA, IOMUX, NVIC, TIMA1, history, everPressed, held, pushes>>

\* the buttons are pressed and released at any time
ButtonChange ==
    /\ pc # "api"
    /\ \E d \in SUBSET Switches : d # DIN /\ DIN' = d
    /\ wr' = {}
    /\ UNCHANGED <<pc, call, input, GPIOA, IOMUX, TIMG0, NVIC, TIMA1, history, everPressed, held, pushes>>

----------------------------------------------------------------------------
(* The program *)

Init ==
    /\ pc = "start"
    /\ call = NoCall
    /\ DIN \in SUBSET Switches
    /\ input = {}
    /\ GPIOA = [PWREN |-> FALSE]
    /\ IOMUX = IOMUX_Reset
    /\ TIMG0 = TIMG0_Reset
    /\ NVIC = {}
    /\ TIMA1 = TIMA1_Reset
    /\ wr = {}
    /\ history = <<>>
    /\ everPressed = FALSE
    /\ held = 0
    /\ pushes = 0

Next ==
    \/ Main_InitializeGPIO
    \/ Main_InitializeTimerG0
    \/ Main_InitializeTimerA1_PWM
    \/ Main_delay_cycles
    \/ Main_DisableBuzzer
    \/ Main_SetTimerG0Delay
    \/ Main_EnableTimerG0
    \/ Loop_Sample
    \/ Loop_Update
    \/ TimerExpire
    \/ TIMG0_IRQHandler
    \/ ButtonChange

Spec == Init /\ [][Next]_vars

\* the timer counts and its interrupt is taken; main, which the handler
\* suspends only for a few cycles in each 0.6 ms timer period, keeps executing
FairSpec ==
    /\ Spec
    /\ SF_vars(Main_InitializeGPIO \/ Main_InitializeTimerG0 \/ Main_InitializeTimerA1_PWM
                 \/ Main_delay_cycles \/ Main_DisableBuzzer \/ Main_SetTimerG0Delay
                 \/ Main_EnableTimerG0 \/ Loop_Sample \/ Loop_Update)
    /\ WF_vars(TimerExpire)
    /\ WF_vars(TIMG0_IRQHandler)

----------------------------------------------------------------------------
(* Direct calls of the TIMA1 functions of hw_interface.c, from any state   *)
(* of the PWM timer's registers                                            *)

Call_SetTimerA1Period ==
    /\ pc = "api"
    /\ \E period \in Periods :
          /\ TIMA1' = SetTimerA1Period(TIMA1, period)
          /\ call' = [fn |-> "SetTimerA1Period", arg |-> period]
    /\ UNCHANGED <<pc, DIN, input, GPIOA, IOMUX, TIMG0, NVIC, wr, history, everPressed, held, pushes>>

Call_EnableTimerA1PWM ==
    /\ pc = "api"
    /\ TIMA1' = EnableTimerA1PWM(TIMA1)
    /\ call' = [fn |-> "EnableTimerA1PWM", arg |-> 0]
    /\ UNCHANGED <<pc, DIN, input, GPIOA, IOMUX, TIMG0, NVIC, wr, history, everPressed, held, pushes>>

Call_DisableTimerA1PWM ==
    /\ pc = "api"
    /\ TIMA1' = DisableTimerA1PWM(TIMA1)
    /\ call' = [fn |-> "DisableTimerA1PWM", arg |-> 0]
    /\ UNCHANGED <<pc, DIN, input, GPIOA, IOMUX, TIMG0, NVIC, wr, history, everPressed, held, pushes>>

InitApi ==
    /\ pc = "api"
    /\ call = NoCall
    /\ DIN = {}
    /\ input = {}
    /\ GPIOA = [PWREN |-> TRUE]
    /\ IOMUX = InitializeGPIO_IOMUX
    /\ TIMG0 = TIMG0_Reset
    /\ NVIC = {}
    /\ \E l \in {0, 3999, 65535}, c \in {0, 2000, 65535},
          s \in SUBSET {"EN", "REPEAT_1", "CM_UP", "CVAE_ZEROVAL"} :
          TIMA1 = [InitializeTimerA1_PWM(TIMA1_Reset) EXCEPT !.LOAD = l, !.CC_01 = c, !.CTRCTL = s]
    /\ wr = {}
    /\ history = <<>>
    /\ everPressed = FALSE
    /\ held = 0
    /\ pushes = 0

NextApi ==
    \/ Call_SetTimerA1Period
    \/ Call_EnableTimerA1PWM
    \/ Call_DisableTimerA1PWM

SpecApi == InitApi /\ [][NextApi]_vars

----------------------------------------------------------------------------
(* Properties *)

EnA1 == "EN" \in TIMA1.CTRCTL

\* length of the run of equal levels that ends h
Run(h) ==
    IF h = <<>> THEN 0
    ELSE Cardinality({i \in 1..Len(h) : \A j \in i..Len(h) : h[j] = h[Len(h)]})

LoopPcs == {"sample", "update", "wfi"}

\* BUSCLK is SYSOSC at 32 MHz
BusClkHz == 32000000

\* C1: after SetTimerA1Period(period) returns, TIMA1 LOAD equals period and
\* CC_01[0] equals period / 2 (integer division), whatever they held before.
C1_SetPeriodSetsLoadAndDuty ==
    call.fn = "SetTimerA1Period" =>
        /\ TIMA1.LOAD = call.arg
        /\ TIMA1.CC_01 = call.arg \div 2

\* C2: each loop iteration samples the four switch bits of DIN31_0 and leaves
\* the TIMA1 enable bit set exactly when the sampled SW1 bit is 0, whatever
\* SW2, SW3, SW4 and the previous enable bit are.
C2_ToneFollowsSW1 ==
    [][/\ (pc = "sample" /\ pc' = "update" => input' = DIN \cap Switches)
       /\ (pc = "update" /\ pc' = "wfi" =>
              ("EN" \in TIMA1'.CTRCTL <=> SW1 \notin input))]_vars

\* SW1 sampled low with the others high, and the tone on
C2_Witness ==
    pc = "wfi" /\ input = {SW2, SW3, SW4} /\ EnA1

\* C3 as stated: an iteration that acts on a run of fewer than DebounceN
\* equal raw samples of SW1 leaves the TIMA1 enable bit as it was.
C3_NoChangeOnShortRun ==
    [][pc = "update" /\ pc' = "wfi" /\ Run(history) < DebounceN =>
          ("EN" \in TIMA1'.CTRCTL <=> EnA1)]_vars

\* C3 amended: the loop has no debounce; after every iteration the TIMA1
\* enable bit is set exactly when the latest raw sample of SW1 is low, however
\* short the run of that level is.
C3_ActsOnRawSample ==
    pc = "wfi" =>
        /\ Len(history) >= 1
        /\ EnA1 <=> (history[Len(history)] = 0)

\* a single low sample after a high one has turned the tone on
C3_Witness ==
    /\ pc = "wfi"
    /\ Len(history) >= 2
    /\ history[Len(history) - 1] = 1
    /\ history[Len(history)] = 0
    /\ EnA1

\* C4 as stated: an iteration that leaves the tone state as it was stores to
\* no TIMA1 register.
C4_NoWriteWhenUnchanged ==
    [][pc = "update" /\ pc' = "wfi" /\ ("EN" \in TIMA1'.CTRCTL <=> EnA1) =>
          wr' \cap TIMA1_Regs = {}]_vars

\* C4 amended: every iteration stores to TIMA1 CTRCTL and to no other timer
\* register; when the tone state stays the same the store leaves every TIMA1
\* register value as it was; k consecutive iterations with SW1 low make k
\* stores.
C4_WritesEveryIteration ==
    [][pc = "update" /\ pc' = "wfi" =>
          /\ wr' = {"TIMA1.CTRCTL"}
          /\ (("EN" \in TIMA1'.CTRCTL <=> EnA1) => TIMA1' = TIMA1)
          /\ pushes' = held']_vars

\* SW1 low for MaxHeld iterations in a row: MaxHeld stores
C4_Witness ==
    pc = "wfi" /\ held = MaxHeld /\ pushes = MaxHeld /\ EnA1 /\ wr = {"TIMA1.CTRCTL"}

\* C5 as stated: until an iteration samples SW1 low, the TIMA1 enable bit is
\* never set.
C5_SilentUntilPress ==
    ~everPressed => ~EnA1

\* C5 amended: until an iteration samples SW1 low, the TIMA1 enable bit is set
\* exactly from the return of InitializeTimerA1_PWM to main's store that
\* clears it after delay_cycles(1600000), and clear everywhere else.
C5_SilentExceptStartupBeep ==
    ~everPressed => (EnA1 <=> pc \in {"delay", "disable"})

\* the loop has run with SW1 high and the tone is off
C5_Witness ==
    pc = "wfi" /\ ~everPressed /\ ~EnA1 /\ Len(history) = DebounceN

C7_EnableDisableIdempotent ==
    /\ call.fn = "EnableTimerA1PWM" =>
          EnA1 /\ EnableTimerA1PWM(TIMA1) = TIMA1
    /\ call.fn = "DisableTimerA1PWM" =>
          ~EnA1 /\ DisableTimerA1PWM(TIMA1) = TIMA1

\* C8 as stated: no loop iteration begins without a tick before it.
C8_EveryPassAfterTick ==
    [][pc' = "sample" /\ pc # "sample" => pc = "wfi" /\ IrqPending]_vars

\* C8 amended: once TIMG0 is enabled no step stores to its registers and its
\* configuration stays as it is, and the zero event is raised again and again;
\* the zero interrupt taken in WFI starts one iteration (sample, update, WFI);
\* every iteration but the first, which follows EnableTimerG0 directly, begins
\* with that interrupt.
C8_TickDriven ==
    /\ [][("EN" \in TIMG0.CTRCTL) =>
             /\ wr' \cap TIMG0_Regs = {}
             /\ [TIMG0' EXCEPT !.RIS = {}] = [TIMG0 EXCEPT !.RIS = {}] ]_vars
    /\ [][pc' = "sample" /\ pc # "sample" =>
             \/ pc = "enableG0"
             \/ pc = "wfi" /\ IrqPending /\ "Z" \notin TIMG0'.RIS]_vars
    /\ [][/\ (pc = "wfi" /\ IrqPending /\ "Z" \notin TIMG0'.RIS => pc' = "sample")
          /\ (pc = "sample" => pc' \in {"sample", "update"})
          /\ (pc = "update" => pc' \in {"update", "wfi"})
          /\ (pc = "wfi" => pc' \in {"wfi", "sample"})]_vars
    /\ []<>("Z" \in TIMG0.RIS)
    /\ (pc = "wfi") ~> (pc = "sample")
    /\ (pc = "sample") ~> (pc = "wfi")

\* main sleeps in WFI with the zero event raised
C8_Witness ==
    pc = "wfi" /\ IrqPending /\ held >= 1

\* C9: whenever TIMG0 is enabled its LOAD is 20 and its repeat bit and its
\* zero-event interrupt mask are set.
C9_EnabledMeansConfigured ==
    "EN" \in TIMG0.CTRCTL =>
        /\ TIMG0.LOAD = 20
        /\ "REPEAT_1" \in TIMG0.CTRCTL
        /\ "Z" \in TIMG0.IMASK

\* TIMG0 is enabled and has expired
C9_Witness ==
    "EN" \in TIMG0.CTRCTL /\ "Z" \in TIMG0.RIS /\ "TIMG0_INT" \in NVIC

\* C10: in the loop, a step changes at most the enable bit of TIMA1 CTRCTL:
\* LOAD stays 3999, CC_01[0] and the other TIMA1 registers stay, the repeat,
\* count-up and count-value-after-enable bits stay set, and TIMG0's
\* configuration stays.
C10_LoopChangesOnlyEnable ==
    [][(pc \in LoopPcs) =>
          (/\ TIMA1.LOAD = 3999
           /\ TIMA1'.LOAD = 3999
           /\ TIMA1'.CC_01 = TIMA1.CC_01
           /\ [TIMA1' EXCEPT !.CTRCTL = {}] = [TIMA1 EXCEPT !.CTRCTL = {}]
           /\ TIMA1'.CTRCTL \ {"EN"} = {"REPEAT_1", "CM_UP", "CVAE_ZEROVAL"}
           /\ [TIMG0' EXCEPT !.RIS = {}] = [TIMG0 EXCEPT !.RIS = {}])]_vars

\* the loop has turned the tone on and off again
C10_Witness ==
    pc = "wfi" /\ everPressed /\ ~EnA1 /\ held = 0 /\ TIMA1.LOAD = 3999

====
